---------------------------- MODULE Spec2Model ----------------------------
(***************************************************************************)
(* A model of sfc::Image (src/src/Image.cpp): the bitmap with its RGBA     *)
(* byte buffer, optional index buffer and palette; its four constructors   *)
(* (decode, palette swatch, tile sheet, re-quantize), crop, and the three  *)
(* tile-grid slicing operations.                                           *)
(*                                                                         *)
(* Representation.  A channel_t / index_t is a Nat below 256.  An rgba_t   *)
(* (uint32_t) is held as the same 32-bit pattern read as a two's           *)
(* complement word: R | G<<8 | B<<16 | A<<24 with A >= 128 is negative.    *)
(* Buffers (std::vector) are sequences; C++ offset k is TLA+ index k+1.    *)
(***************************************************************************)
EXTENDS Integers, Sequences, FiniteSets, TLC

VARIABLES img, args, res, pc, x, y, v, decodes, ops

vars == <<img, args, res, pc, x, y, v, decodes, ops>>

-----------------------------------------------------------------------------
(* Bounds of the model. *)

\* largest width and height of a source bitmap
MaxDim == 3
\* largest crop origin coordinate and crop / tile extent
MaxCoord == 4
\* number of pixel patterns the source bitmaps are drawn from, minus one
MaxSeed == 1

-----------------------------------------------------------------------------
(* Colors and bytes. *)

transparent_color == 0

\* byte k (0 = R .. 3 = A) of a packed color: (color >> 8k) & 0xff
ColorByte(color, k) ==
  CASE k = 0 -> color % 256
    [] k = 1 -> (color \div 256) % 256
    [] k = 2 -> (color \div 65536) % 256
    [] OTHER -> (color \div 16777216) % 256

\* R | G<<8 | B<<16 | A<<24 as a 32-bit word
PackColor(r, g, b, a) ==
  r + g * 256 + b * 65536 + (IF a < 128 THEN a ELSE a - 256) * 16777216

\* sfc::rgba_color(c): the packed value of a color
rgba_color(c) == c

\* sfc::to_rgba: reinterpret a byte buffer as packed colors, four bytes each
to_rgba(data) ==
  [i \in 1..(Len(data) \div 4) |->
     PackColor(data[4*i - 3], data[4*i - 2], data[4*i - 1], data[4*i])]

\* std::vector::resize from empty / std::fill with 0: n zero elements
Zeros(n) == [i \in 1..n |-> 0] \o <<>>

-----------------------------------------------------------------------------
(* unsigned arithmetic.  An `unsigned` (32 bits) is held like an rgba_t:    *)
(* the same bits read as a two's complement word, so a value below 2^31 is  *)
(* itself and a value of 2^31 or more is negative.  Sums and products wrap  *)
(* modulo 2^32, as they do in the code.                                     *)

Hi16(a) == (a \div 65536) % 65536
Lo16(a) == a % 65536
Word32(hi, lo) == lo + ((IF hi < 32768 THEN hi ELSE hi - 65536) * 65536)

\* a + b on unsigned; operands below 2^30 cannot wrap
UAdd(a, b) ==
  IF a >= 0 /\ a < 1073741824 /\ b >= 0 /\ b < 1073741824 THEN a + b
  ELSE LET lo == Lo16(a) + Lo16(b)
           hi == Hi16(a) + Hi16(b) + (lo \div 65536)
       IN  Word32(hi % 65536, lo % 65536)

\* a - b on unsigned
USub(a, b) ==
  LET lo == Lo16(a) - Lo16(b)
      hi == (Hi16(a) - Hi16(b)) + (lo \div 65536)
  IN  Word32(hi % 65536, lo % 65536)

\* a * c on unsigned, for 0 <= c <= 256
UMulSmall(a, c) ==
  LET lo == Lo16(a) * c
      hi == (Hi16(a) * c) + (lo \div 65536)
  IN  Word32(hi % 65536, lo % 65536)

\* a * b on unsigned; operands below 2^15 cannot wrap, and otherwise the
\* product is summed from a times each byte of b, most significant first
UMul(a, b) ==
  IF a >= 0 /\ a < 32768 /\ b >= 0 /\ b < 32768 THEN a * b
  ELSE UAdd(UMulSmall(UAdd(UMulSmall(UAdd(UMulSmall(UMulSmall(a, ColorByte(b, 3)),
                                                    256),
                                          UMulSmall(a, ColorByte(b, 2))), 256),
                           UMulSmall(a, ColorByte(b, 1))), 256),
            UMulSmall(a, ColorByte(b, 0)))

\* a < b on unsigned
ULess(a, b) ==
  IF (a >= 0) = (b >= 0) THEN a < b ELSE a >= 0

-----------------------------------------------------------------------------
(* The bitmap. *)

\* a default-constructed Image
EmptyImage ==
  [width |-> 0, height |-> 0, data |-> <<>>, indexed |-> <<>>, palette |-> <<>>]

\* Image::rgba_color_at(i): the packed color of pixel i (0-based)
rgba_color_at(image, i) ==
  PackColor(image.data[4*i + 1], image.data[4*i + 2],
            image.data[4*i + 3], image.data[4*i + 4])

\* Image::set_pixel(color, index) on the pixel buffer
set_pixel(data, color, index) ==
  LET offset == UMul(index, 4)
  IN  IF ULess(Len(data), UAdd(offset, 3)) THEN data
      ELSE [data EXCEPT ![offset + 1] = ColorByte(color, 0),
                        ![offset + 2] = ColorByte(color, 1),
                        ![offset + 3] = ColorByte(color, 2),
                        ![offset + 4] = ColorByte(color, 3)]

\* Image::set_pixel(color, x, y) on the pixel buffer of a bitmap `width` wide
set_pixel_xy(data, width, color, px, py) ==
  LET offset == UMul(UAdd(UMul(py, width), px), 4)
  IN  IF ULess(Len(data), UAdd(offset, 3)) THEN data
      ELSE [data EXCEPT ![offset + 1] = ColorByte(color, 0),
                        ![offset + 2] = ColorByte(color, 1),
                        ![offset + 3] = ColorByte(color, 2),
                        ![offset + 4] = ColorByte(color, 3)]

-----------------------------------------------------------------------------
(* Memory.  `heap` is the memory around the buffers of one call:            *)
(*   heap.after     the mapped bytes that follow the end of the buffer     *)
(*                  read from; past them no memory is mapped;               *)
(*   heap.overrun   what a write past the end of a non-empty buffer does:   *)
(*                  it hits unmapped memory ("SIGSEGV"), it destroys the    *)
(*                  allocator's records and the process is aborted when     *)
(*                  they are next used ("SIGABRT"), or it lands in unused   *)
(*                  memory and the call goes on ("ok");                     *)
(*   heap.free      the bytes the allocator can give to one buffer, an      *)
(*                  unsigned.                                               *)
(* A read past the end of a buffer finds whatever heap.after holds; a read  *)
(* or write of unmapped memory (the null data() of an empty vector          *)
(* included) ends the process with SIGSEGV.                                 *)

\* free memory that every buffer of the bounded crops fits
MaxAlloc == 4096

\* std::vector::resize(n) does not throw: the allocator has n bytes
CanAlloc(n, heap) == ~ULess(heap.free, n)

\* the natural number an unsigned stands for
USize(n) == IF n >= 0 THEN n ELSE ((n + 2147483647) + 2147483647) + 2

\* the n bytes at offset off lie inside len mapped bytes
InBuffer(off, n, len) == off >= 0 /\ n >= 0 /\ off <= len /\ n <= len - off

\* std::memcpy(&dst[dstoff], &src[srcoff], n)
memcpy(dst, dstoff, src, srcoff, n, heap) ==
  IF n = 0 THEN [status |-> "ok", buf |-> dst]
  ELSE IF ~InBuffer(srcoff, n, Len(src) + Len(heap.after))
    THEN [status |-> "SIGSEGV", buf |-> dst]
  ELSE IF ~InBuffer(dstoff, n, Len(dst)) /\ (Len(dst) = 0 \/ dstoff < 0 \/ n < 0)
    THEN [status |-> "SIGSEGV", buf |-> dst]
  ELSE IF ~InBuffer(dstoff, n, Len(dst)) /\ heap.overrun # "ok"
    THEN [status |-> heap.overrun, buf |-> dst]
  ELSE [status |-> "ok",
        buf |-> [i \in 1..Len(dst) |->
                   IF i - 1 >= dstoff /\ (i - 1) - dstoff < n
                     THEN LET s == srcoff + ((i - 1) - dstoff) + 1
                          IN  IF s <= Len(src) THEN src[s]
                              ELSE heap.after[s - Len(src)]
                     ELSE dst[i]]]

-----------------------------------------------------------------------------
(* Image::crop *)

\* the fill loop of crop: every four bytes hold fillval
FillColor(n, fillval) == [i \in 1..n |-> ColorByte(fillval, (i - 1) % 4)]

\* the row loops of crop: for iy in [0, blit_height) one memcpy of n units
\* from src_base + iy * src_stride to iy * dst_stride, until one faults.
\* With n = 0 no row copies anything.
RECURSIVE crop_rows(_, _, _, _, _, _, _, _, _)
crop_rows(dst, src, iy, blit_height, dst_stride, src_base, src_stride, n, heap) ==
  IF n = 0 \/ ~ULess(iy, blit_height) THEN [status |-> "ok", buf |-> dst]
  ELSE LET row == memcpy(dst, UMul(iy, dst_stride), src,
                         UAdd(src_base, UMul(iy, src_stride)), n, heap)
       IN  IF row.status # "ok" THEN row
           ELSE crop_rows(row.buf, src, UAdd(iy, 1), blit_height, dst_stride,
                          src_base, src_stride, n, heap)

\* Image::crop: status "ok" and the bitmap returned, or how the call ended
\* (img._palette = _palette allocates four bytes per color)
crop(image, cx, cy, crop_width, crop_height, heap) ==
  LET pixels    == UMul(crop_width, crop_height)
      bytes     == UMul(pixels, 4)
      has_index == Len(image.indexed) # 0
      failed(status) == [status |-> status, img |-> EmptyImage]
  IN  IF ~CanAlloc(Len(image.palette) * 4, heap) \/ ~CanAlloc(bytes, heap)
        THEN failed("std::bad_alloc")
      ELSE
        LET filled == FillColor(USize(bytes), transparent_color)
        IN  IF ULess(image.width, cx) \/ ULess(image.height, cy)
              THEN \* crop outside source image: return empty
                   IF has_index /\ ~CanAlloc(pixels, heap) THEN failed("std::bad_alloc")
                   ELSE [status |-> "ok",
                         img |-> [width   |-> crop_width,
                                  height  |-> crop_height,
                                  data    |-> filled,
                                  indexed |-> IF has_index THEN Zeros(USize(pixels))
                                              ELSE <<>>,
                                  palette |-> image.palette]]
              ELSE
                LET blit_width  == IF ULess(image.width, UAdd(cx, crop_width))
                                     THEN USub(image.width, cx) ELSE crop_width
                    blit_height == IF ULess(image.height, UAdd(cy, crop_height))
                                     THEN USub(image.height, cy) ELSE crop_height
                    d == crop_rows(filled, image.data, 0, blit_height,
                                   UMul(crop_width, 4),
                                   UAdd(UMul(cx, 4), UMul(UMul(cy, image.width), 4)),
                                   UMul(image.width, 4), UMul(blit_width, 4), heap)
                IN  IF d.status # "ok" THEN failed(d.status)
                    ELSE IF ~has_index
                      THEN [status |-> "ok",
                            img |-> [width   |-> crop_width,
                                     height  |-> crop_height,
                                     data    |-> d.buf,
                                     indexed |-> <<>>,
                                     palette |-> image.palette]]
                    ELSE IF ~CanAlloc(pixels, heap) THEN failed("std::bad_alloc")
                    ELSE
                      LET ix == crop_rows(Zeros(USize(pixels)), image.indexed, 0,
                                          blit_height, crop_width,
                                          UAdd(cx, UMul(cy, image.width)),
                                          image.width, blit_width, heap)
                      IN  IF ix.status # "ok" THEN failed(ix.status)
                          ELSE [status |-> "ok",
                                img |-> [width   |-> crop_width,
                                         height  |-> crop_height,
                                         data    |-> d.buf,
                                         indexed |-> ix.buf,
                                         palette |-> image.palette]]

-----------------------------------------------------------------------------
(* Source bitmaps the operations are applied to.  In a bitmap without index *)
(* data, pixel i of pattern s has R = i + 1 (every pixel differs), G = s,   *)
(* B = 7 and is opaque except every third one.  An indexed bitmap carries a *)
(* palette of w*h + 1 colors, entry 0 transparent; pixel i has index        *)
(* (i + s) mod (w*h + 1) and the color of that palette entry.               *)

TestPalette(n) ==
  [k \in 1..n |-> IF k = 1 THEN transparent_color
                  ELSE PackColor(8 * (k - 1), 248, 0, 255)]

TestByte(i, s, k) ==
  CASE k = 0 -> i + 1
    [] k = 1 -> s
    [] k = 2 -> 7
    [] OTHER -> IF (i + s) % 3 = 0 THEN 0 ELSE 255

TestIndex(i, s, n) == (i + s) % n

MkImage(w, h, s, ix) ==
  [width   |-> w,
   height  |-> h,
   data    |-> [j \in 1..(w * h * 4) |->
                  IF ix
                    THEN ColorByte(TestPalette((w * h) + 1)
                                     [TestIndex((j - 1) \div 4, s, (w * h) + 1) + 1],
                                   (j - 1) % 4)
                    ELSE TestByte((j - 1) \div 4, s, (j - 1) % 4)],
   indexed |-> IF ix THEN [j \in 1..(w * h) |-> TestIndex(j - 1, s, (w * h) + 1)]
               ELSE <<>>,
   palette |-> IF ix THEN TestPalette((w * h) + 1) ELSE <<>>]

TestImages ==
  { MkImage(w, h, s, ix) : w \in 0..MaxDim, h \in 0..MaxDim,
                           s \in 0..MaxSeed, ix \in BOOLEAN }

\* a byte
Bytes == 0..255

\* how many bytes past the end of its index buffer a crop of the bitmap can
\* read: the bytes the buffer is short of one per pixel
Overread(image) ==
  IF Len(image.indexed) = 0 \/ Len(image.indexed) >= image.width * image.height
    THEN 0
    ELSE (image.width * image.height) - Len(image.indexed)

\* the memory a call on the bitmap may run in
\* free memory: none, room for one pixel, room for every buffer of the
\* bounded crops, or all that an unsigned size can ask for (2^32 - 1)
FreeBytes == { 0, 4, MaxAlloc, -1 }

\* what a write past the end of a non-empty buffer may do
Overruns == { "SIGSEGV", "SIGABRT", "ok" }

\* the bytes mapped after the index buffer: some or all of those a crop can
\* read past its end
Heaps(image) ==
  { [after |-> a, overrun |-> o, free |-> f] :
      a \in UNION { [1..k -> Bytes] : k \in 0..Overread(image) },
      o \in Overruns, f \in FreeBytes }

NoResult == [status |-> "none", img |-> EmptyImage]

-----------------------------------------------------------------------------
(* SpecCrop: one call of crop on a source bitmap. *)

\* crop sizes whose pixel count crop_width * crop_height passes 2^32: it
\* wraps to 0, to 0, and to 4
WrapSizes == { <<1073741824, 4>>, <<65536, 65536>>, <<1073741825, 4>> }

CropSizes == ((0..MaxCoord) \X (0..MaxCoord)) \cup WrapSizes

InitCrop ==
  /\ img \in TestImages
  /\ \E cx \in 0..MaxCoord, cy \in 0..MaxCoord, size \in CropSizes,
        heap \in Heaps(img) :
       args = [x |-> cx, y |-> cy, crop_width |-> size[1],
               crop_height |-> size[2], heap |-> heap]
  /\ res = NoResult
  /\ pc = "call"
  /\ x = 0 /\ y = 0 /\ v = <<>> /\ decodes = 0 /\ ops = 0

Crop ==
  /\ pc = "call"
  /\ res' = crop(img, args.x, args.y, args.crop_width, args.crop_height, args.heap)
  /\ pc' = "done"
  /\ UNCHANGED <<img, args, x, y, v, decodes, ops>>

NextCrop == Crop

SpecCrop == InitCrop /\ [][NextCrop]_vars

\* the four channel bytes of pixel (px, py) of a bitmap
PixelAt(image, px, py) ==
  [k \in 0..3 |-> image.data[((py * image.width) + px) * 4 + k + 1]]

\* the index of pixel (px, py) of a bitmap
IndexAt(image, px, py) == image.indexed[(py * image.width) + px + 1]

TransparentPixel == [k \in 0..3 |-> ColorByte(transparent_color, k)]

\* len = w * h * k as natural numbers, without forming the product
IsProduct(len, w, h, k) ==
  IF w = 0 \/ h = 0 THEN len = 0
  ELSE /\ len % k = 0
       /\ (len \div k) % h = 0
       /\ (len \div k) \div h = w

\* the result of the crop is the crop_width x crop_height window at (x, y)
CropHolds ==
  LET out == res.img
      w == args.crop_width
      h == args.crop_height
  IN  /\ res.status = "ok"
      /\ out.width = w /\ out.height = h
      /\ IsProduct(Len(out.data), w, h, 4)
      /\ out.palette = img.palette
      /\ IF Len(img.indexed) # 0 THEN IsProduct(Len(out.indexed), w, h, 1)
         ELSE Len(out.indexed) = 0
      /\ \A cy \in 0..(h - 1), cx \in 0..(w - 1) :
           IF args.x + cx < img.width /\ args.y + cy < img.height
             THEN /\ PixelAt(out, cx, cy) = PixelAt(img, args.x + cx, args.y + cy)
                  /\ Len(img.indexed) # 0 =>
                       IndexAt(out, cx, cy) = IndexAt(img, args.x + cx, args.y + cy)
             ELSE /\ PixelAt(out, cx, cy) = TransparentPixel
                  /\ Len(img.indexed) # 0 => IndexAt(out, cx, cy) = 0
      /\ (args.x = 0 /\ args.y = 0 /\ w = img.width /\ h = img.height) =>
           (out.data = img.data /\ out.indexed = img.indexed)

\* C2: for every source bitmap and every x, y, crop_width, crop_height, crop
\* never fails and returns a crop_width x crop_height bitmap whose pixel
\* (and index, when the source has index data) at (cx, cy) is the source's
\* at (x+cx, y+cy) when that lies inside the source, and otherwise
\* transparent_color (index 0); the palette is the source's.
CropContract == pc = "done" => CropHolds

\* the same for the sizes whose byte count stays below 2^32, when memory
\* is not short
CropContractUnwrapped ==
  (/\ pc = "done"
   /\ <<args.crop_width, args.crop_height>> \notin WrapSizes
   /\ ~ULess(args.heap.free, MaxAlloc)) => CropHolds

\* a crop that overhangs the right and bottom edges of an indexed source
\* from an origin inside it
CropOverhangs ==
  /\ pc = "done"
  /\ Len(img.indexed) # 0
  /\ args.x > 0 /\ args.x < img.width /\ args.y > 0 /\ args.y < img.height
  /\ args.x + args.crop_width > img.width
  /\ args.y + args.crop_height > img.height
  /\ args.crop_width > 1 /\ args.crop_height > 1
  /\ args.crop_width <= MaxCoord

\* a crop whose byte count wrapped has ended the process
CropKilled == pc = "done" /\ res.status \in {"SIGSEGV", "SIGABRT"}

-----------------------------------------------------------------------------
(* SpecSlice: Image::crops, Image::rgba_crops and Image::indexed_crops,    *)
(* one action per step of their common loop.  args.mode names the function *)
(* called; v is the vector being built.                                    *)

SliceModes == {"crops", "rgba_crops", "indexed_crops"}

\* most tiles the vector v has room for: more than any walk with
\* tile_width >= 1 emits
MemTiles == (MaxDim * MaxDim) + 2

\* args.room: the tiles the memory of the run has room for in v; the
\* push_back into a full v throws std::bad_alloc
Rooms == 0..MemTiles

\* if (!_indexed_data.size()) throw std::runtime_error("No indexed data in image")
indexed_crops_throws(image) == Len(image.indexed) = 0

\* crop(x, y, tile_width, tile_height) and the element pushed for it
slice_tile(mode, image, tx, ty, tile_width, tile_height, heap) ==
  LET c == crop(image, tx, ty, tile_width, tile_height, heap)
  IN  [status |-> c.status,
       tile   |-> CASE mode = "crops" -> c.img
                    [] mode = "rgba_crops" -> to_rgba(c.img.data)
                    [] OTHER -> c.img.indexed]

\* the amount y advances by at the end of a row
row_step(tile_width, tile_height) == tile_width

\* a tile size whose pixel count tile_width * tile_height wraps to 0
WrapTiles == { <<65536, 65536>> }

TileSizes == ((0..MaxCoord) \X (0..MaxCoord)) \cup WrapTiles

InitSlice ==
  /\ img \in TestImages
  /\ \E mode \in SliceModes, size \in TileSizes, room \in Rooms :
       args = [mode |-> mode, tile_width |-> size[1], tile_height |-> size[2],
               room |-> room]
  /\ res = NoResult
  /\ pc = "call"
  /\ x = 0 /\ y = 0 /\ v = <<>> /\ decodes = 0 /\ ops = 0

SliceCall ==
  /\ pc = "call"
  /\ IF args.mode = "indexed_crops" /\ indexed_crops_throws(img)
       THEN /\ pc' = "error"
            /\ res' = [status |-> "No indexed data in image", img |-> EmptyImage]
       ELSE /\ pc' = "loop"
            /\ res' = res
  /\ x' = 0 /\ y' = 0 /\ v' = <<>>
  /\ UNCHANGED <<img, args, decodes, ops>>

\* v.push_back(crop(x, y, tile_width, tile_height)); x += tile_width
SliceTile ==
  /\ pc = "loop"
  /\ ULess(y, img.height)
  /\ ULess(x, img.width)
  /\ \E heap \in Heaps(img) :
       LET t == slice_tile(args.mode, img, x, y, args.tile_width,
                           args.tile_height, heap)
       IN  IF t.status \in {"SIGSEGV", "SIGABRT"}
             THEN /\ pc' = "killed"
                  /\ res' = [status |-> t.status, img |-> EmptyImage]
                  /\ UNCHANGED <<x, v>>
           ELSE IF t.status = "std::bad_alloc" \/ Len(v) >= args.room
             THEN /\ pc' = "error"
                  /\ res' = [status |-> "std::bad_alloc", img |-> EmptyImage]
                  /\ UNCHANGED <<x, v>>
           ELSE /\ v' = Append(v, t.tile)
                /\ x' = UAdd(x, args.tile_width)
                /\ UNCHANGED <<res, pc>>
  /\ UNCHANGED <<img, args, y, decodes, ops>>

SliceRowEnd ==
  /\ pc = "loop"
  /\ ULess(y, img.height)
  /\ ~ULess(x, img.width)
  /\ x' = 0
  /\ y' = UAdd(y, row_step(args.tile_width, args.tile_height))
  /\ UNCHANGED <<img, args, res, pc, v, decodes, ops>>

SliceReturn ==
  /\ pc = "loop"
  /\ ~ULess(y, img.height)
  /\ pc' = "done"
  /\ res' = [status |-> "ok", img |-> EmptyImage]
  /\ UNCHANGED <<img, args, x, y, v, decodes, ops>>

NextSlice == SliceCall \/ SliceTile \/ SliceRowEnd \/ SliceReturn

SpecSlice == InitSlice /\ [][NextSlice]_vars

\* ceil(a / b) for b >= 1
CeilDiv(a, b) == (a + b - 1) \div b

\* memory in which nothing follows a buffer
NoHeap == [after |-> <<>>, overrun |-> "SIGSEGV", free |-> MaxAlloc]

\* the tiles of the grid walk that steps x by tile_width and y by tile_height
GridTiles(mode, image, tile_width, tile_height) ==
  LET cols == CeilDiv(image.width, tile_width)
      rows == CeilDiv(image.height, tile_height)
  IN  [i \in 1..(cols * rows) |->
         slice_tile(mode, image, ((i - 1) % cols) * tile_width,
                    ((i - 1) \div cols) * tile_height, tile_width, tile_height,
                    NoHeap).tile]

\* C1: for tile_width, tile_height >= 1 the slicing functions return the
\* crops at y = 0, tile_height, ... (rows) and x = 0, tile_width, ...
\* (columns) in row-major order: ceil(width/tile_width) *
\* ceil(height/tile_height) tiles.
SliceIsGrid ==
  (pc = "done" /\ args.tile_width >= 1 /\ args.tile_height >= 1) =>
    /\ Len(v) = CeilDiv(img.width, args.tile_width) * CeilDiv(img.height, args.tile_height)
    /\ v = GridTiles(args.mode, img, args.tile_width, args.tile_height)

\* C6: every slicing run is bounded by the image dimensions (a walk over a
\* width x height bitmap visits at most width * height tile origins before
\* it returns), whatever tile_width and tile_height are, 0 included.
SliceTerminates ==
  pc = "loop" => Len(v) <= img.width * img.height

\* C8: indexed_crops fails with "No indexed data in image", before any tile
\* is emitted, exactly when the source's index buffer is empty; when it is
\* not empty the call does not fail and every emitted index array has
\* tile_width * tile_height entries.
IndexedCropsContract ==
  args.mode = "indexed_crops" =>
    /\ Len(img.indexed) = 0 => (pc \in {"call", "error"} /\ v = <<>>)
    /\ pc = "error" => (Len(img.indexed) = 0 /\ res.status = "No indexed data in image")
    /\ pc # "killed"
    /\ Len(img.indexed) # 0 =>
         \A i \in 1..Len(v) :
           IsProduct(Len(v[i]), args.tile_width, args.tile_height, 1)

\* the same for tile sizes of at least 1 x 1 whose pixel count does not
\* wrap, in the runs that memory does not end
IndexedCropsContractInRange ==
  (/\ args.tile_width >= 1
   /\ <<args.tile_width, args.tile_height>> \notin WrapTiles
   /\ res.status # "std::bad_alloc") =>
    IndexedCropsContract

\* indexed_crops has failed on a bitmap of positive size without index data
IndexedCropsFailed ==
  /\ args.mode = "indexed_crops"
  /\ pc = "error"
  /\ img.width > 0 /\ img.height > 0
  /\ args.tile_width >= 1 /\ args.tile_height >= 1

-----------------------------------------------------------------------------
(* The re-quantize constructor Image(const Image&, const sfc::Subpalette&). *)

\* scale_up(c, 3): a 5-bit channel to 8 bits by left bit replication
scale_up(c) == ((c * 8) + (c \div 4)) % 256

\* sfc::reduce_color(color, mode): alpha below 0x80 is transparent; otherwise
\* the channels are cut to 5 bits and alpha is 0xff
reduce_color(color, mode) ==
  IF ColorByte(color, 3) < 128 THEN transparent_color
  ELSE PackColor(ColorByte(color, 0) \div 8, ColorByte(color, 1) \div 8,
                 ColorByte(color, 2) \div 8, 255)

\* sfc::normalize_color(color, mode): the 5-bit channels back to 8 bits
normalize_color(color, mode) ==
  IF color = transparent_color THEN transparent_color
  ELSE PackColor(scale_up(ColorByte(color, 0)), scale_up(ColorByte(color, 1)),
                 scale_up(ColorByte(color, 2)), ColorByte(color, 3))

\* std::find(_palette.begin(), _palette.end(), color) - _palette.begin()
find_index(palette, color) ==
  IF \E k \in 1..Len(palette) : palette[k] = color
    THEN (CHOOSE k \in 1..Len(palette) :
            /\ palette[k] = color
            /\ \A j \in 1..(k - 1) : palette[j] # color) - 1
    ELSE Len(palette)

\* a pixel step that maps a color missing from the palette to index 0
quant_pixel_lenient(palette, color) ==
  IF color = transparent_color
    THEN [found |-> TRUE, index |-> 0, rgba |-> transparent_color]
    ELSE LET palette_index == find_index(palette, color)
         IN  IF palette_index < Len(palette)
               THEN [found |-> TRUE, index |-> palette_index % 256,
                     rgba |-> rgba_color(palette[palette_index + 1])]
               ELSE [found |-> TRUE, index |-> 0, rgba |-> transparent_color]

\* the body of the pixel loop for a reduced and normalized color: the index
\* and color to store, or found = FALSE for "Color not in palette"
quant_pixel(palette, color) ==
  IF color = transparent_color
    THEN [found |-> TRUE, index |-> 0, rgba |-> transparent_color]
    ELSE LET palette_index == find_index(palette, color)
         IN  IF palette_index < Len(palette)
               THEN [found |-> TRUE, index |-> palette_index % 256,
                     rgba |-> rgba_color(palette[palette_index + 1])]
               ELSE [found |-> FALSE, index |-> 0, rgba |-> transparent_color]

\* the pixel loop, from pixel i on
RECURSIVE quant_loop(_, _, _, _, _, _, _)
quant_loop(image, palette, mode, i, size, data, indexed) ==
  IF i >= size THEN [status |-> "ok", data |-> data, indexed |-> indexed]
  ELSE LET color == normalize_color(reduce_color(rgba_color_at(image, i), mode), mode)
           p == quant_pixel(palette, color)
       IN  IF p.found
             THEN quant_loop(image, palette, mode, i + 1, size,
                             set_pixel(data, p.rgba, i),
                             [indexed EXCEPT ![i + 1] = p.index])
             ELSE [status |-> "Color not in palette", data |-> <<>>, indexed |-> <<>>]

requantize(image, subpalette) ==
  IF Len(subpalette.colors) = 0
    THEN [status |-> "No colors", img |-> EmptyImage]
    ELSE LET size == image.width * image.height
             r == quant_loop(image, subpalette.colors, subpalette.mode, 0, size,
                             Zeros(size * 4), Zeros(size))
         IN  IF r.status = "ok"
               THEN [status |-> "ok",
                     img |-> [width |-> image.width, height |-> image.height,
                              data |-> r.data, indexed |-> r.indexed,
                              palette |-> subpalette.colors]]
               ELSE [status |-> r.status, img |-> EmptyImage]

\* most pixels of a bitmap given to the re-quantize constructor
MaxPixels == 3
\* most colors of a subpalette
MaxPalette == 3

\* source colors: transparent, translucent (reduces to transparent), two
\* reds with one reduced color, green, and blue
SourceColors ==
  { PackColor(0, 0, 0, 0), PackColor(9, 8, 7, 16), PackColor(255, 0, 0, 255),
    PackColor(250, 3, 1, 255), PackColor(0, 255, 0, 255), PackColor(0, 0, 255, 255) }

\* normalized colors a subpalette may hold; blue is in no subpalette
PaletteColors ==
  { transparent_color, PackColor(255, 0, 0, 255), PackColor(0, 255, 0, 255) }

\* the bitmap of the given size whose pixels have the given packed colors
ImageOfColors(w, h, colors) ==
  [width   |-> w,
   height  |-> h,
   data    |-> [j \in 1..(w * h * 4) |-> ColorByte(colors[((j - 1) \div 4) + 1], (j - 1) % 4)],
   indexed |-> <<>>,
   palette |-> <<>>]

QuantShapes ==
  { d \in (0..MaxPixels) \X (0..MaxPixels) : d[1] * d[2] <= MaxPixels }

QuantImages ==
  UNION { { ImageOfColors(d[1], d[2], colors) :
              colors \in [1..(d[1] * d[2]) -> SourceColors] } : d \in QuantShapes }

\* a subpalette of 257 normalized colors: red is its last entry (index 256)
\* and no other entry is a color of PaletteColors
LongPalette ==
  [k \in 1..257 |->
     IF k = 257 THEN PackColor(255, 0, 0, 255)
     ELSE PackColor(scale_up((k - 1) % 32), scale_up(1 + ((k - 1) \div 32)),
                    scale_up(1), 255)]

Subpalettes ==
  UNION { { [colors |-> c, mode |-> "snes"] : c \in [1..n -> PaletteColors] } :
          n \in 0..MaxPalette }
    \cup { [colors |-> LongPalette, mode |-> "snes"] }

InitQuant ==
  /\ img \in QuantImages
  /\ args \in [subpalette : Subpalettes]
  /\ res = NoResult
  /\ pc = "call"
  /\ x = 0 /\ y = 0 /\ v = <<>> /\ decodes = 0 /\ ops = 0

Requantize ==
  /\ pc = "call"
  /\ res' = requantize(img, args.subpalette)
  /\ pc' = "done"
  /\ UNCHANGED <<img, args, x, y, v, decodes, ops>>

NextQuant == Requantize

SpecQuant == InitQuant /\ [][NextQuant]_vars

\* the reduced-then-normalized color of source pixel i (0-based)
Reduced(i) ==
  normalize_color(reduce_color(rgba_color_at(img, i), args.subpalette.mode),
                  args.subpalette.mode)

InPalette(color) ==
  \E k \in 1..Len(args.subpalette.colors) : args.subpalette.colors[k] = color

\* C3: in a re-quantized bitmap, a pixel whose source color reduces to
\* transparent_color has index 0 and color transparent_color whatever
\* palette[0] is; every other pixel has a valid palette index and the color
\* of that palette entry.
QuantExact ==
  (pc = "done" /\ res.status = "ok") =>
    LET out == res.img
    IN  /\ out.palette = args.subpalette.colors
        /\ Len(out.indexed) = img.width * img.height
        /\ \A i \in 0..((img.width * img.height) - 1) :
             IF Reduced(i) = transparent_color
               THEN /\ out.indexed[i + 1] = 0
                    /\ rgba_color_at(out, i) = transparent_color
               ELSE /\ out.indexed[i + 1] < Len(out.palette)
                    /\ rgba_color_at(out, i) = out.palette[out.indexed[i + 1] + 1]
                    /\ out.palette[out.indexed[i + 1] + 1] = Reduced(i)

\* the same for subpalettes whose every index fits an index_t
QuantExactShort ==
  Len(args.subpalette.colors) <= 256 => QuantExact

\* C4 as stated: whenever some source pixel's reduced-then-normalized color
\* is absent from a non-empty subpalette, the constructor fails with "Color
\* not in palette" and returns no bitmap.
QuantAbsentFails ==
  (/\ pc = "done"
   /\ Len(args.subpalette.colors) # 0
   /\ \E i \in 0..((img.width * img.height) - 1) : ~InPalette(Reduced(i))) =>
    (res.status = "Color not in palette" /\ res.img = EmptyImage)

\* C4 amended: whenever some source pixel's reduced-then-normalized color is
\* not transparent_color and is absent from a non-empty subpalette, the
\* constructor fails with "Color not in palette" and returns no bitmap.
QuantAbsentOpaqueFails ==
  (/\ pc = "done"
   /\ Len(args.subpalette.colors) # 0
   /\ \E i \in 0..((img.width * img.height) - 1) :
        Reduced(i) # transparent_color /\ ~InPalette(Reduced(i))) =>
    (res.status = "Color not in palette" /\ res.img = EmptyImage)

\* the constructor has failed on a color absent from the palette that is
\* not the first pixel's
QuantFailed ==
  /\ pc = "done"
  /\ res.status = "Color not in palette"
  /\ img.width * img.height >= 2
  /\ InPalette(Reduced(0))

-----------------------------------------------------------------------------
(* The tile-sheet constructor Image(const sfc::Tileset&). *)

image_width == 128

\* sfc::div_ceil(a, b)
div_ceil(a, b) == (a + b - 1) \div b

\* Image::blit: set_pixel(rgba_data[i], (i % width) + x, (i / width) + y)
\* for i in [lo, hi) in increasing order, in a bitmap `width_` wide
RECURSIVE blit_range(_, _, _, _, _, _, _, _)
blit_range(data, width_, rgba_data, bx, by, width, lo, hi) ==
  IF lo >= hi THEN data
  ELSE IF hi = lo + 1
    THEN set_pixel_xy(data, width_, rgba_data[lo + 1],
                      (lo % width) + bx, (lo \div width) + by)
    ELSE LET mid == (lo + hi) \div 2
             first == blit_range(data, width_, rgba_data, bx, by, width, lo, mid)
         IN  \* the test is always true: it has first computed before the rest
             IF Len(first) >= 0
               THEN blit_range(first, width_, rgba_data, bx, by, width, mid, hi)
               ELSE data

blit(data, width_, rgba_data, bx, by, width) ==
  blit_range(data, width_, rgba_data, bx, by, width, 0, Len(rgba_data))

\* the blit loop over the tiles, from tile_index on
RECURSIVE sheet_loop(_, _, _, _)
sheet_loop(data, tileset, tiles_per_row, tile_index) ==
  IF tile_index >= Len(tileset.tiles) THEN data
  ELSE LET blitted == blit(data, image_width, tileset.tiles[tile_index + 1],
                           (tile_index % tiles_per_row) * tileset.tile_width,
                           (tile_index \div tiles_per_row) * tileset.tile_height,
                           tileset.tile_width)
       IN  \* the test is always true: it has blitted computed before the rest
           IF Len(blitted) >= 0
             THEN sheet_loop(blitted, tileset, tiles_per_row, tile_index + 1)
             ELSE data

sheet(tileset) ==
  LET tiles_per_row == div_ceil(image_width, tileset.tile_width)
      rows == div_ceil(Len(tileset.tiles), tiles_per_row)
      height == rows * tileset.tile_height
  IN  [width   |-> image_width,
       height  |-> height,
       data    |-> sheet_loop(Zeros(image_width * height * 4), tileset,
                              tiles_per_row, 0),
       indexed |-> <<>>,
       palette |-> <<>>]

\* most tiles of a tileset
MaxTiles == 4
\* largest tile height
MaxTileHeight == 2

\* tile widths: divisors of 128 and widths that do not divide it
TileWidths == {1, 2, 3, 8, 16, 64, 100, 127, 128}

\* pixel j (0-based, row-major) of tile t (0-based): opaque, and different
\* from every other pixel of the tileset
TileColor(t, j) == PackColor(j % 256, j \div 256, t + 1, 255)

Tilesets ==
  { [tile_width |-> tw, tile_height |-> th,
     tiles |-> [t \in 1..n |-> [j \in 1..(tw * th) |-> TileColor(t - 1, j - 1)]]] :
    tw \in TileWidths, th \in 1..MaxTileHeight, n \in 0..MaxTiles }

InitSheet ==
  /\ img = EmptyImage
  /\ args \in [tileset : Tilesets]
  /\ res = NoResult
  /\ pc = "call"
  /\ x = 0 /\ y = 0 /\ v = <<>> /\ decodes = 0 /\ ops = 0

Sheet ==
  /\ pc = "call"
  /\ res' = [status |-> "ok", img |-> sheet(args.tileset)]
  /\ pc' = "done"
  /\ UNCHANGED <<img, args, x, y, v, decodes, ops>>

NextSheet == Sheet

SpecSheet == InitSheet /\ [][NextSheet]_vars

ColorPixel(color) == [k \in 0..3 |-> ColorByte(color, k)]

\* C7: the sheet is 128 wide and ceil(tile_count / tiles_per_row) *
\* tile_height high with tiles_per_row = ceil(128 / tile_width); pixel (c, r)
\* of tile i is at ((i mod tiles_per_row) * tile_width + c,
\* (i div tiles_per_row) * tile_height + r) whenever that lies inside the
\* sheet (so no tile has overwritten another tile's cell), and every sheet
\* pixel in no tile's cell is fully transparent.
SheetLayout ==
  pc = "done" =>
    LET ts == args.tileset
        out == res.img
        tpr == CeilDiv(128, ts.tile_width)
        n == Len(ts.tiles)
        CellX(i) == (i % tpr) * ts.tile_width
        CellY(i) == (i \div tpr) * ts.tile_height
    IN  /\ out.width = 128
        /\ out.height = CeilDiv(n, tpr) * ts.tile_height
        /\ Len(out.data) = out.width * out.height * 4
        /\ \A i \in 0..(n - 1), c \in 0..(ts.tile_width - 1), r \in 0..(ts.tile_height - 1) :
             (CellX(i) + c < out.width /\ CellY(i) + r < out.height) =>
               PixelAt(out, CellX(i) + c, CellY(i) + r)
                 = ColorPixel(ts.tiles[i + 1][(r * ts.tile_width) + c + 1])
        /\ \A px \in 0..(out.width - 1), py \in 0..(out.height - 1) :
             (\A i \in 0..(n - 1) :
                ~(/\ px >= CellX(i) /\ px < CellX(i) + ts.tile_width
                  /\ py >= CellY(i) /\ py < CellY(i) + ts.tile_height)) =>
               PixelAt(out, px, py) = TransparentPixel

-----------------------------------------------------------------------------
(* The decode constructor Image(const std::string& path).                  *)
(*                                                                         *)
(* A PNG file is [colortype, bitdepth, width, height, palette, pixels,     *)
(* fault]: palette holds four bytes (R, G, B, A) per entry, pixels holds   *)
(* one sequence of channel samples per pixel, each below 2^bitdepth, and   *)
(* fault names the call that reports an error: lodepng::load_file          *)
(* ("load"), the first lodepng::decode ("decode"), the second ("redecode") *)
(* or none.                                                                *)

Pow2(n) == IF n = 1 THEN 2 ELSE IF n = 2 THEN 4 ELSE IF n = 4 THEN 16
           ELSE IF n = 8 THEN 256 ELSE 65536

Channels(colortype) ==
  CASE colortype = "LCT_GREY" -> 1
    [] colortype = "LCT_RGB" -> 3
    [] colortype = "LCT_PALETTE" -> 1
    [] colortype = "LCT_GREY_ALPHA" -> 2
    [] OTHER -> 4

\* lodepng::decode with color_convert = false: the pixels in the file's own
\* color type and bit depth.  Samples of fewer than 8 bits are packed, first
\* pixel in the high bits, with no padding between rows; 16-bit samples are
\* two bytes, high byte first.
decode_raw(file) ==
  LET n == file.width * file.height
      bd == file.bitdepth
      ch == Channels(file.colortype)
      Sample(k) == file.pixels[(k \div ch) + 1][(k % ch) + 1]
  IN  IF bd < 8
        THEN LET per == 8 \div bd
                 Bits(b, j) == IF (b * per) + j < n
                                 THEN Sample((b * per) + j) * Pow2(bd) ^ (per - 1 - j)
                                 ELSE 0
             IN  [b \in 1..((n + per - 1) \div per) |->
                    Bits(b - 1, 0)
                    + (IF per > 1 THEN Bits(b - 1, 1) ELSE 0)
                    + (IF per > 2 THEN Bits(b - 1, 2) + Bits(b - 1, 3) ELSE 0)
                    + (IF per > 4 THEN Bits(b - 1, 4) + Bits(b - 1, 5)
                                       + Bits(b - 1, 6) + Bits(b - 1, 7) ELSE 0)]
        ELSE IF bd = 8
          THEN [b \in 1..(n * ch) |-> Sample(b - 1)]
          ELSE [b \in 1..(n * ch * 2) |->
                  IF (b - 1) % 2 = 0 THEN Sample((b - 1) \div 2) \div 256
                  ELSE Sample((b - 1) \div 2) % 256]

\* a sample of the file's bit depth as an 8-bit value
To8(value, bd) ==
  IF bd = 16 THEN value \div 256
  ELSE IF bd = 8 THEN value
  ELSE (value * 255) \div (Pow2(bd) - 1)

\* lodepng::decode with color_convert = true and info_raw = 8-bit RGBA
decode_rgba8(file) ==
  LET bd == file.bitdepth
      Px(i, k) ==
        LET p == file.pixels[i + 1]
        IN  CASE file.colortype = "LCT_GREY" ->
                   IF k < 3 THEN To8(p[1], bd) ELSE 255
              [] file.colortype = "LCT_RGB" ->
                   IF k < 3 THEN To8(p[k + 1], bd) ELSE 255
              [] file.colortype = "LCT_PALETTE" ->
                   IF p[1] < Len(file.palette) \div 4
                     THEN file.palette[(4 * p[1]) + k + 1]
                     ELSE IF k < 3 THEN 0 ELSE 255
              [] file.colortype = "LCT_GREY_ALPHA" ->
                   IF k < 3 THEN To8(p[1], bd) ELSE To8(p[2], bd)
              [] OTHER -> To8(p[k + 1], bd)
  IN  [b \in 1..(file.width * file.height * 4) |-> Px((b - 1) \div 4, (b - 1) % 4)]

\* the palette loop: one packed color per four bytes of info_raw.palette
decode_palette(file) ==
  [i \in 1..(Len(file.palette) \div 4) |->
     PackColor(file.palette[(4 * i) - 3], file.palette[(4 * i) - 2],
               file.palette[(4 * i) - 1], file.palette[4 * i])]

\* a conversion test that leaves out the palette branch
needs_conversion_no_palette(colortype, bitdepth) ==
  \/ colortype \in {"LCT_RGB", "LCT_GREY", "LCT_GREY_ALPHA"}
  \/ bitdepth # 8

\* needs_conversion after the three tests of the constructor
needs_conversion(colortype, bitdepth) ==
  \/ colortype = "LCT_PALETTE"
  \/ colortype \in {"LCT_RGB", "LCT_GREY", "LCT_GREY_ALPHA"}
  \/ bitdepth # 8

\* the constructor: the bitmap, or the decoder's error, and the number of
\* lodepng::decode calls made
decode_ctor(file) ==
  IF file.fault = "load"
    THEN [status |-> "load error", img |-> EmptyImage, decodes |-> 0]
  ELSE IF file.fault = "decode"
    THEN [status |-> "decode error", img |-> EmptyImage, decodes |-> 1]
  ELSE IF file.fault = "redecode"
            /\ needs_conversion(file.colortype, file.bitdepth)
    THEN [status |-> "decode error", img |-> EmptyImage, decodes |-> 2]
    ELSE LET first == decode_raw(file)
             is_palette == file.colortype = "LCT_PALETTE"
             again == needs_conversion(file.colortype, file.bitdepth)
         IN  [status |-> "ok",
              img |-> [width   |-> file.width,
                       height  |-> file.height,
                       data    |-> IF again THEN decode_rgba8(file) ELSE first,
                       indexed |-> IF is_palette THEN first ELSE <<>>,
                       palette |-> IF is_palette THEN decode_palette(file) ELSE <<>>],
              decodes |-> IF again THEN 2 ELSE 1]

\* most palette entries of a file
MaxFilePalette == 4

ColorModes ==
  { <<"LCT_GREY", 1>>, <<"LCT_GREY", 2>>, <<"LCT_GREY", 4>>, <<"LCT_GREY", 8>>,
    <<"LCT_GREY", 16>>, <<"LCT_RGB", 8>>, <<"LCT_RGB", 16>>,
    <<"LCT_PALETTE", 1>>, <<"LCT_PALETTE", 2>>, <<"LCT_PALETTE", 4>>,
    <<"LCT_PALETTE", 8>>, <<"LCT_GREY_ALPHA", 8>>, <<"LCT_GREY_ALPHA", 16>>,
    <<"LCT_RGBA", 8>>, <<"LCT_RGBA", 16>> }

\* entry k of a file's palette: entry 0 transparent, the others opaque
FilePalette(n) ==
  [j \in 1..(4 * n) |->
     LET k == (j - 1) \div 4
     IN  CASE (j - 1) % 4 = 0 -> (k * 40) % 256
           [] (j - 1) % 4 = 1 -> 255 - k
           [] (j - 1) % 4 = 2 -> 3
           [] OTHER -> IF k = 0 THEN 0 ELSE 255]

Faults == {"none", "load", "decode", "redecode"}

MkFile(mode, w, h, n, s, fault) ==
  [colortype |-> mode[1],
   bitdepth  |-> mode[2],
   width     |-> w,
   height    |-> h,
   palette   |-> IF mode[1] = "LCT_PALETTE" THEN FilePalette(n) ELSE <<>>,
   pixels    |-> [i \in 1..(w * h) |->
                    [c \in 1..Channels(mode[1]) |->
                       IF mode[1] = "LCT_PALETTE" THEN (i + s) % n
                       ELSE (((i - 1 + s) * 37) + (c * 101)) % Pow2(mode[2])]],
   fault     |-> fault]

Files ==
  { MkFile(mode, w, h, n, s, fault) :
      mode \in ColorModes, w \in 1..MaxDim, h \in 1..MaxDim,
      n \in 1..MaxFilePalette, s \in 0..MaxSeed, fault \in Faults }

PaletteFits(file) ==
  file.colortype = "LCT_PALETTE" =>
    Len(file.palette) \div 4 <= Pow2(file.bitdepth)

InitDecode ==
  /\ img = EmptyImage
  /\ args \in [file : {f \in Files : PaletteFits(f)}]
  /\ res = NoResult
  /\ pc = "call"
  /\ x = 0 /\ y = 0 /\ v = <<>> /\ decodes = 0 /\ ops = 0

Decode ==
  /\ pc = "call"
  /\ LET r == decode_ctor(args.file)
     IN  /\ res' = [status |-> r.status, img |-> r.img]
         /\ decodes' = r.decodes
  /\ pc' = "done"
  /\ UNCHANGED <<img, args, x, y, v, ops>>

NextDecode == Decode

SpecDecode == InitDecode /\ [][NextDecode]_vars

\* C5: decoding a palette-indexed PNG of width x height with N palette
\* entries, at bit depth 1, 2, 4 or 8, yields width*height indices, each
\* below N, and the N palette colors in the file's order.
DecodeIndexed ==
  (pc = "done" /\ res.status = "ok" /\ args.file.colortype = "LCT_PALETTE") =>
    LET f == args.file
        n == Len(f.palette) \div 4
    IN  /\ Len(res.img.indexed) = f.width * f.height
        /\ \A i \in 1..Len(res.img.indexed) : res.img.indexed[i] < n
        /\ \A i \in 1..(f.width * f.height) : res.img.indexed[i] = f.pixels[i][1]
        /\ Len(res.img.palette) = n
        /\ \A k \in 1..n :
             ColorPixel(res.img.palette[k]) = [c \in 0..3 |-> f.palette[(4 * (k - 1)) + c + 1]]

\* C10 as stated: the constructor decodes a second time exactly when the
\* file's color type is RGB, grayscale or grayscale+alpha or its bit depth
\* is not 8; otherwise the first decode's output is the pixel buffer.
RedecodeUnlessRgbaOrPalette8 ==
  (pc = "done" /\ res.status = "ok") =>
    /\ decodes = 2 <=>
         (\/ args.file.colortype \in {"LCT_RGB", "LCT_GREY", "LCT_GREY_ALPHA"}
          \/ args.file.bitdepth # 8)
    /\ decodes # 2 => (decodes = 1 /\ res.img.data = decode_raw(args.file))

\* C10 amended: the constructor decodes a second time exactly when the
\* file's color type is palette, RGB, grayscale or grayscale+alpha or its
\* bit depth is not 8; only for RGBA at 8 bits is the first decode's output
\* the pixel buffer.
RedecodeUnlessRgba8 ==
  (pc = "done" /\ res.status = "ok") =>
    /\ decodes = 2 <=>
         (\/ args.file.colortype \in {"LCT_PALETTE", "LCT_RGB", "LCT_GREY", "LCT_GREY_ALPHA"}
          \/ args.file.bitdepth # 8)
    /\ decodes = 2 => res.img.data = decode_rgba8(args.file)
    /\ decodes # 2 => (decodes = 1 /\ res.img.data = decode_raw(args.file))

\* an 8-bit palette file of more than one pixel has been decoded
DecodedPalette8 ==
  /\ pc = "done" /\ res.status = "ok"
  /\ args.file.colortype = "LCT_PALETTE" /\ args.file.bitdepth = 8
  /\ args.file.width * args.file.height > 1
  /\ decodes = 2

-----------------------------------------------------------------------------
(* The palette-swatch constructor Image(const sfc::Palette&).  A palette is *)
(* [colors, max_colors]: the rows of normalized_colors() and                *)
(* max_colors_per_subpalette().                                             *)

\* the inner loop: set_pixel(rgba_color(vy[x]), x, y) for x from sx on
RECURSIVE swatch_row(_, _, _, _, _)
swatch_row(data, width, vy, sx, sy) ==
  IF sx >= Len(vy) THEN data
  ELSE swatch_row(set_pixel_xy(data, width, rgba_color(vy[sx + 1]), sx, sy),
                  width, vy, sx + 1, sy)

\* the outer loop, from row sy on
RECURSIVE swatch_rows(_, _, _, _)
swatch_rows(data, width, rows, sy) ==
  IF sy >= Len(rows) THEN data
  ELSE swatch_rows(swatch_row(data, width, rows[sy + 1], 0, sy), width, rows, sy + 1)

swatch(palette) ==
  IF Len(palette.colors) = 0 \/ Len(palette.colors[1]) = 0
    THEN [status |-> "No colors", img |-> EmptyImage]
    ELSE LET width == palette.max_colors
             height == Len(palette.colors)
         IN  [status |-> "ok",
              img |-> [width   |-> width,
                       height  |-> height,
                       data    |-> swatch_rows(Zeros(width * height * 4), width,
                                               palette.colors, 0),
                       indexed |-> <<>>,
                       palette |-> <<>>]]

-----------------------------------------------------------------------------
(* Spec: the life of a bitmap.  A bitmap is constructed (decode, palette    *)
(* swatch, tile sheet), and then re-quantized, cropped or replaced by one   *)
(* of its tiles, up to MaxOps operations in all.  Only operations that      *)
(* succeed change the state.                                                *)

\* most operations in one life
MaxOps == 3
\* largest crop origin, crop extent and tile extent in a life
LifeCoord == 1

\* row k of a swatch palette: its first n colors
SwatchRow(n) == [k \in 1..n |-> PackColor(8 * k, 0, 248, 255)]

Palettes ==
  { [colors |-> rows, max_colors |-> MaxPalette] :
      rows \in { <<>>, <<SwatchRow(0)>>, <<SwatchRow(MaxPalette)>>,
                 <<SwatchRow(MaxPalette), SwatchRow(1)>>,
                 <<SwatchRow(2), SwatchRow(MaxPalette)>> } }

\* most pixels of a file decoded in a life
LifePixels == 2

LifeFiles ==
  { f \in Files : PaletteFits(f) /\ f.fault = "none"
                   /\ f.width * f.height <= LifePixels }

LifeTilesets == { ts \in Tilesets : Len(ts.tiles) <= 1 }

Init ==
  /\ img = EmptyImage
  /\ args = [op |-> "none"]
  /\ res = NoResult
  /\ pc = "empty"
  /\ x = 0 /\ y = 0 /\ v = <<>> /\ decodes = 0 /\ ops = 0

\* a successful operation has produced bitmap b
Becomes(b, op) ==
  /\ img' = b
  /\ args' = [op |-> op]
  /\ pc' = "bitmap"
  /\ ops' = ops + 1
  /\ UNCHANGED <<res, x, y, v, decodes>>

NewDecode ==
  /\ pc = "empty" /\ ops < MaxOps
  /\ \E f \in LifeFiles :
       LET r == decode_ctor(f)
       IN  r.status = "ok" /\ Becomes(r.img, "decode")

NewSwatch ==
  /\ pc = "empty" /\ ops < MaxOps
  /\ \E p \in Palettes :
       LET r == swatch(p)
       IN  r.status = "ok" /\ Becomes(r.img, "swatch")

NewSheet ==
  /\ pc = "empty" /\ ops < MaxOps
  /\ \E ts \in LifeTilesets : Becomes(sheet(ts), "sheet")

NewRequantized ==
  /\ pc = "bitmap" /\ ops < MaxOps
  /\ \E sp \in Subpalettes :
       LET r == requantize(img, sp)
       IN  r.status = "ok" /\ Becomes(r.img, "requantize")

CropBitmap ==
  /\ pc = "bitmap" /\ ops < MaxOps
  /\ \E cx \in 0..LifeCoord, cy \in 0..LifeCoord,
        cw \in 0..LifeCoord, ch \in 0..LifeCoord, heap \in Heaps(img) :
       LET r == crop(img, cx, cy, cw, ch, heap)
       IN  r.status = "ok" /\ Becomes(r.img, "crop")

\* crops(tw, th)[k]: one of the tiles the walk of crops emits
TileOfBitmap ==
  /\ pc = "bitmap" /\ ops < MaxOps
  /\ \E tw \in 1..LifeCoord, th \in 1..LifeCoord, heap \in Heaps(img) :
       \E i \in 0..img.width, j \in 0..img.height :
         /\ i * tw < img.width
         /\ j * row_step(tw, th) < img.height
         /\ LET r == crop(img, i * tw, j * row_step(tw, th), tw, th, heap)
            IN  r.status = "ok" /\ Becomes(r.img, "crops")

Next ==
  \/ NewDecode
  \/ NewSwatch
  \/ NewSheet
  \/ NewRequantized
  \/ CropBitmap
  \/ TileOfBitmap

Spec == Init /\ [][Next]_vars

\* C9: every bitmap reachable by successful constructions followed by
\* crops and slicings has a pixel buffer of width * height * 4 bytes and an
\* index buffer that is empty or width * height long.
BufferLengths ==
  pc = "bitmap" =>
    /\ Len(img.data) = img.width * img.height * 4
    /\ Len(img.indexed) = 0 \/ Len(img.indexed) = img.width * img.height

\* the pixel buffer alone: width * height * 4 bytes in every reachable bitmap
PixelBufferLength ==
  pc = "bitmap" => Len(img.data) = img.width * img.height * 4

=============================================================================
